---------------------------- MODULE Spec2Model ----------------------------
(***************************************************************************)
(* GreenPulse: the moss-wall health engine.                                *)
(*                                                                         *)
(*   utils/model_utils.py      MossHealthPredictor                         *)
(*   utils/sensor_simulator.py SensorSimulator                             *)
(*   utils/data_generator.py   HistoricalDataGenerator                     *)
(*                                                                         *)
(* Numbers are fixed point.  Sensor channels are held in thousandths       *)
(* (Milli); the health score is held as a numerator over ScoreDen; the     *)
(* confidence is held as a numerator over ConfDen.  Callers start an       *)
(* operation from the idle position (op = "none"), the operation leaves    *)
(* its result in ret, and Discard drops the result again, as the           *)
(* rendering layer does at the end of a script run.                        *)
(***************************************************************************)
EXTENDS Integers, Sequences, FiniteSets, TLC

VARIABLES
    file,        \* state of the artifact moss_health_model.pkl on disk
    model,       \* self.model of the session's predictor, "absent" when there is no predictor
    op,          \* the operation whose result is held in ret, "none" when idle
    ret,         \* the result of that operation
    memo,        \* one earlier calculate_health_score observation (args, score)
    timestamps,  \* generate_historical_data: the timestamp column of data so far
    cursor       \* generate_historical_data: the date_range and the loop index i

vars == <<file, model, op, ret, memo, timestamps, cursor>>

NoRet == [kind |-> "none"]
NoCursor == [times |-> <<>>, i |-> 0, end_time |-> 0]

Max(a, b) == IF a >= b THEN a ELSE b
Min(a, b) == IF a <= b THEN a ELSE b
Abs(x) == IF x < 0 THEN -x ELSE x

-----------------------------------------------------------------------------
(* MossHealthPredictor.__init__ / load_model / create_fallback_model       *)

\* labels with the last entry renamed.
labels_renamed == <<"Healthy", "Needs Water", "Needs Shade", "Critical">>

\* self.labels, model_utils.py line 10 (TLA+ sequences are 1-based)
labels == <<"Healthy", "Needs Water", "Needs Shade", "Needs Attention">>

\* The artifact on disk: absent, a pickled trained classifier, bytes that do
\* not unpickle, a pickle of some other object, or a file open() rejects.
FileStates == {"missing", "valid", "corrupt", "foreign", "unreadable"}

\* What pickle.load can hand back from a "foreign" artifact.
ForeignObjects == {"None", "object"}

\* Outcome of `with open(..., "wb")` + pickle.dump (lines 57-58).
SaveOutcomes == {"ok", "open_fail", "dump_fail"}

\* The rule with the shade test ahead of the water test.
TrainLabel_shade_first(h, l, m) ==
    IF h >= 60 /\ h <= 80 /\ l >= 300 /\ l <= 800 /\ m >= 500 /\ m <= 750
    THEN 0
    ELSE IF l > 1000 \/ h < 40 THEN 2
    ELSE IF m < 400 THEN 1
    ELSE 3

\* Training-label rule, lines 41-48 (class index, 0-based as in the code).
TrainLabel(h, l, m) ==
    IF h >= 60 /\ h <= 80 /\ l >= 300 /\ l <= 800 /\ m >= 500 /\ m <= 750
    THEN 0
    ELSE IF m < 400 THEN 1
    ELSE IF l > 1000 \/ h < 40 THEN 2
    ELSE 3

\* create_fallback_model, lines 27-58.  f: the file before the call, m: the
\* model before the call, trainOk: import + fit (lines 29-54) succeed,
\* save: outcome of lines 57-58.  writes counts the times the file was
\* opened for writing, saved the completed dumps.
create_fallback_model(f, m, trainOk, save) ==
    IF ~trainOk
    THEN [file |-> f, model |-> m, raised |-> TRUE,
          trained |-> 0, writes |-> 0, saved |-> 0]
    ELSE IF save = "ok"
    THEN [file |-> "valid", model |-> "trained", raised |-> FALSE,
          trained |-> 1, writes |-> 1, saved |-> 1]
    ELSE IF save = "open_fail"
    THEN [file |-> f, model |-> "trained", raised |-> TRUE,
          trained |-> 1, writes |-> 0, saved |-> 0]
    ELSE [file |-> "corrupt", model |-> "trained", raised |-> TRUE,
          trained |-> 1, writes |-> 1, saved |-> 0]

\* The try block with the existence test inverted.
load_try_inverted(f, obj, trainOk, save) ==
    IF f # "missing"
    THEN create_fallback_model(f, "None", trainOk, save) @@ [loaded |-> FALSE]
    ELSE [file |-> f, model |-> "None", raised |-> TRUE,
          trained |-> 0, writes |-> 0, saved |-> 0, loaded |-> FALSE]

\* The try block of load_model, lines 16-22.
load_try(f, obj, trainOk, save) ==
    IF f = "missing"
    THEN create_fallback_model(f, "None", trainOk, save) @@ [loaded |-> FALSE]
    ELSE IF f = "valid"
    THEN [file |-> f, model |-> "trained", raised |-> FALSE,
          trained |-> 0, writes |-> 0, saved |-> 0, loaded |-> TRUE]
    ELSE IF f = "foreign"
    THEN [file |-> f, model |-> obj, raised |-> FALSE,
          trained |-> 0, writes |-> 0, saved |-> 0, loaded |-> TRUE]
    ELSE [file |-> f, model |-> "None", raised |-> TRUE,
          trained |-> 0, writes |-> 0, saved |-> 0, loaded |-> FALSE]

\* load_model, lines 13-25: the try block, and on any exception the
\* handler's own call of create_fallback_model (line 25), whose exception
\* nothing catches.
load_model(f, obj, trainOk1, save1, trainOk2, save2) ==
    LET t == load_try(f, obj, trainOk1, save1)
    IN  IF ~t.raised
        THEN t
        ELSE LET h == create_fallback_model(t.file, t.model, trainOk2, save2)
             IN  [file |-> h.file, model |-> h.model, raised |-> h.raised,
                  trained |-> t.trained + h.trained,
                  writes |-> t.writes + h.writes,
                  saved |-> t.saved + h.saved, loaded |-> FALSE]

-----------------------------------------------------------------------------
(* calculate_health_score, calculate_confidence, predict_health            *)

\* The clamp without its lower bound.
Clamp_upper_only(lo, hi, x) == Min(hi, x)

\* max(lo, min(hi, x)): model_utils.py lines 112-114 and 119,
\* sensor_simulator.py lines 36-45, data_generator.py lines 42-46.
Clamp(lo, hi, x) == Max(lo, Min(hi, x))

\* The score is held as a numerator over ScoreDen = lcm(50, 700, 450):
\* a sub-score over 50 weighs 0.3 * 10 * 6300 / 50 = 378, and so on.
ScoreDen == 6300

\* The score with the weights of humidity and moisture exchanged.
calculate_health_score_swapped(humidity, light, moisture) ==
    LET humidity_score == Max(0, Min(50, 50 - Abs(humidity - 70)))
        light_score    == Max(0, Min(700, 700 - Abs(light - 500)))
        moisture_score == Max(0, Min(450, 450 - Abs(moisture - 650)))
        health_score   == humidity_score * 504 + light_score * 27
                          + moisture_score * 42
    IN  Max(0, Min(10 * ScoreDen, health_score))

\* calculate_health_score, lines 104-119.  The sub-scores are held as
\* numerators over their own half-widths 50, 700 and 450.
calculate_health_score(humidity, light, moisture) ==
    LET humidity_score == Clamp(0, 50, 50 - Abs(humidity - 70))
        light_score    == Clamp(0, 700, 700 - Abs(light - 500))
        moisture_score == Clamp(0, 450, 450 - Abs(moisture - 650))
        health_score   == humidity_score * 378 + light_score * 27
                          + moisture_score * 56
    IN  Clamp(0, 10 * ScoreDen, health_score)

\* ideal_conditions, lines 85-90, keyed by the class index.
ideal_conditions ==
    [p \in 0..3 |->
        CASE p = 0 -> [humidity |-> 70, light |-> 500, moisture |-> 650]
          [] p = 1 -> [humidity |-> 50, light |-> 400, moisture |-> 300]
          [] p = 2 -> [humidity |-> 35, light |-> 1200, moisture |-> 500]
          [] p = 3 -> [humidity |-> 45, light |-> 900, moisture |-> 400]]

\* Largest r in lo..hi with r * r <= x (np.sqrt, rounded down).
RECURSIVE SqrtBetween(_, _, _)
SqrtBetween(lo, hi, x) ==
    IF lo >= hi THEN lo
    ELSE LET mid == (lo + hi + 1) \div 2
         IN  IF mid * mid <= x THEN SqrtBetween(mid, hi, x)
                               ELSE SqrtBetween(lo, mid - 1, x)

\* The confidence is a percentage held as a numerator over ConfDen: with
\* the three differences held over 9000, distance * 200 = r / 45.
ConfDen == 45

\* calculate_confidence, lines 83-102, for a prediction that is a key of
\* ideal_conditions.  A single difference of 0.25 or more already gives
\* distance * 200 >= 50, so max(50, ...) is 50 without squaring it.
calculate_confidence(humidity, light, moisture, prediction) ==
    LET ideal == ideal_conditions[prediction]
        h == Abs(humidity - ideal.humidity)
        l == Abs(light - ideal.light)
        m == Abs(moisture - ideal.moisture)
    IN  IF h >= 25 \/ l >= 375 \/ m >= 225
        THEN 50 * ConfDen
        ELSE LET h_diff == h * 90
                 l_diff == l * 6
                 m_diff == m * 10
                 distance == SqrtBetween(0, 4000,
                               h_diff * h_diff + l_diff * l_diff
                               + m_diff * m_diff)
             IN  Max(50 * ConfDen, 100 * ConfDen - distance)

\* Exceptions the steps of predict_health can raise; all derive from
\* Exception.
Exceptions == {"AttributeError", "KeyError", "IndexError", "ValueError"}

\* What an object that is not the trained classifier does when predict_health
\* uses it: whether it has predict / predict_proba, whether they raise, and
\* the values they return.
Predictions == -5 .. 4
TopProbabilities == {25, 60, 100}
Behaviours ==
    [predict : {"missing", "raises", "returns"}, prediction : Predictions,
     proba : {"missing", "raises", "returns"}, top : TopProbabilities]

\* The try block of predict_health, lines 63-77.  mdl is self.model; b is
\* the behaviour of the object behind it (for the trained classifier:
\* predict returns a class it was trained on, predict_proba exists).
\* exc is the exception that leaves the block, "none" when it returns.
predict_try(mdl, humidity, light, moisture, b) ==
    LET Raise(e) == [exc |-> e, value |-> <<>>]
        has_predict == mdl = "trained" \/ (mdl = "object" /\ b.predict # "missing")
        prediction == b.prediction
        has_proba == mdl = "trained" \/ b.proba # "missing"
    IN  IF ~has_predict THEN Raise("AttributeError")
        ELSE IF mdl = "object" /\ b.predict = "raises" THEN Raise("ValueError")
        ELSE IF has_proba /\ mdl = "object" /\ b.proba = "raises"
             THEN Raise("ValueError")
        ELSE IF ~has_proba /\ prediction \notin DOMAIN ideal_conditions
             THEN Raise("KeyError")
        ELSE IF prediction \notin -4 .. 3 THEN Raise("IndexError")
        ELSE LET confidence ==
                    IF has_proba THEN b.top * ConfDen
                    ELSE calculate_confidence(humidity, light, moisture,
                                              prediction)
                 health_score ==
                    calculate_health_score(humidity, light, moisture)
                 label == labels[IF prediction >= 0 THEN prediction + 1
                                                    ELSE prediction + 5]
             IN  [exc |-> "none", value |-> <<label, confidence, health_score>>]

\* A handler that names one exception class only.
Caught_ValueError_only == {"ValueError"}

\* The classes `except Exception` (line 79) catches.
Caught == Exceptions

\* predict_health, lines 60-81.
predict_health(mdl, humidity, light, moisture, b) ==
    LET t == predict_try(mdl, humidity, light, moisture, b)
    IN  IF t.exc = "none"
        THEN [raised |-> FALSE, failed |-> FALSE, value |-> t.value]
        ELSE IF t.exc \in Caught
        THEN [raised |-> FALSE, failed |-> TRUE, value |-> <<"Unknown", 0, 0>>]
        ELSE [raised |-> TRUE, failed |-> TRUE, value |-> <<>>]

-----------------------------------------------------------------------------
(* get_recommendations                                                     *)

\* A Python string is a sequence of pieces: a literal piece, or the
\* characters a format specifier produced.
Digit(d) == <<"0", "1", "2", "3", "4", "5", "6", "7", "8", "9">>[d + 1]

\* Decimal digits of a natural number, most significant first.
RECURSIVE Digits(_)
Digits(n) == IF n < 10 THEN <<Digit(n)>>
             ELSE Digits(n \div 10) \o <<Digit(n % 10)>>

\* Thousandths: a channel value x is held as x * Milli.
Milli == 1000

\* f"{x:.0f}" for x held in thousandths: round to the nearest integer,
\* a tie going to the even neighbour; a sign for negative values.
Format0f(x) ==
    LET a == Abs(x)
        q == a \div Milli
        r == a % Milli
        n == IF r > 500 THEN q + 1
             ELSE IF r < 500 THEN q
             ELSE IF q % 2 = 0 THEN q ELSE q + 1
    IN  (IF x < 0 THEN <<"-">> ELSE <<>>) \o Digits(n)

\* The lookup with the light value in the "Needs Water" string.
get_recommendations_wrong_field(prediction, sensor_data) ==
    IF prediction = "Needs Water"
    THEN << <<"Activate automatic misting system">>,
            <<"Check water reservoir levels">>,
            <<"Verify sprinkler system functionality">>,
            <<"Current moisture: ">> \o Format0f(sensor_data.light)
                \o <<" (target: 600-750)">> >>
    ELSE IF prediction = "Needs Shade"
    THEN << <<"Adjust building ventilation">>,
            <<"Consider temporary shading solutions">>,
            <<"Check air conditioning efficiency">>,
            <<"Current light: ">> \o Format0f(sensor_data.light)
                \o <<" lux (optimal: 300-800)">> >>
    ELSE IF prediction = "Needs Attention"
    THEN << <<"Schedule maintenance inspection">>,
            <<"Check all sensor calibrations">>,
            <<"Examine moss growth patterns">>,
            <<"Review environmental control systems">> >>
    ELSE << <<"Continue current maintenance schedule">>,
            <<"Monitor sensor readings">>,
            <<"System operating optimally">> >>

\* get_recommendations, lines 121-156.
get_recommendations(prediction, sensor_data) ==
    IF prediction = "Needs Water"
    THEN << <<"Activate automatic misting system">>,
            <<"Check water reservoir levels">>,
            <<"Verify sprinkler system functionality">>,
            <<"Current moisture: ">> \o Format0f(sensor_data.moisture)
                \o <<" (target: 600-750)">> >>
    ELSE IF prediction = "Needs Shade"
    THEN << <<"Adjust building ventilation">>,
            <<"Consider temporary shading solutions">>,
            <<"Check air conditioning efficiency">>,
            <<"Current light: ">> \o Format0f(sensor_data.light)
                \o <<" lux (optimal: 300-800)">> >>
    ELSE IF prediction = "Needs Attention"
    THEN << <<"Schedule maintenance inspection">>,
            <<"Check all sensor calibrations">>,
            <<"Examine moss growth patterns">>,
            <<"Review environmental control systems">> >>
    ELSE << <<"Continue current maintenance schedule">>,
            <<"Monitor sensor readings">>,
            <<"System operating optimally">> >>

-----------------------------------------------------------------------------
(* Inputs of the calls                                                     *)

\* Triples handed to calculate_health_score (whole units): the optimum,
\* the Reading bounds, and values far outside them.
ScoreHumidity == {-1000, 45, 70, 95}
ScoreLight    == {50, 500, 1200, 1000000000}
ScoreMoisture == {200, 650, 900, 1100}

\* Triples handed to predict_health (whole units).
PredictHumidity == {-1000, 30, 70}
PredictLight    == {500, 1200, 1000000000}
PredictMoisture == {300, 650}

\* The behaviours possible for self.model: the trained classifier predicts
\* one of its four classes and has predict_proba; None has neither.
BehavioursOf(mdl) ==
    IF mdl = "trained"
    THEN {b \in Behaviours : /\ b.predict = "returns" /\ b.proba = "returns"
                             /\ b.prediction \in 0 .. 3}
    ELSE IF mdl = "None"
    THEN {b \in Behaviours : /\ b.predict = "missing" /\ b.proba = "missing"
                             /\ b.prediction = 0 /\ b.top = 100}
    ELSE Behaviours

\* Labels and readings handed to get_recommendations (thousandths).
RecLabels == {"Healthy", "Needs Water", "Needs Shade", "Needs Attention",
              "Unknown"}
RecMoisture == {200000, 349500, 350000, 350500, 351500, 900000}
RecLight    == {50000, 999499, 1200000, 1500000}

-----------------------------------------------------------------------------
(* The calls                                                               *)

\* MossHealthPredictor(), lines 8-11, as app.py line 31 calls it at the
\* start of a session.  A constructor that raises leaves no predictor.
Construct ==
    /\ op = "none"
    /\ \E obj \in ForeignObjects, t1 \in BOOLEAN, s1 \in SaveOutcomes,
          t2 \in BOOLEAN, s2 \in SaveOutcomes :
          LET r == load_model(file, obj, t1, s1, t2, s2)
          IN  /\ file' = r.file
              /\ model' = IF r.raised THEN "absent" ELSE r.model
              /\ op' = "construct"
              /\ ret' = [kind |-> "construct", startFile |-> file,
                         raised |-> r.raised, model |-> r.model,
                         trained |-> r.trained, writes |-> r.writes,
                         saved |-> r.saved, loaded |-> r.loaded]
    /\ UNCHANGED <<memo, timestamps, cursor>>

\* The file system between two process starts: the artifact is removed,
\* damaged, replaced or made unreadable by something outside the program.
EnvChange ==
    /\ op = "none"
    /\ \E f \in FileStates : f # file /\ file' = f
    /\ UNCHANGED <<model, op, ret, memo, timestamps, cursor>>

\* predictor.predict_health(humidity, light, moisture), app.py line 88.
PredictCall ==
    /\ op = "none"
    /\ model # "absent"
    /\ \E h \in PredictHumidity, l \in PredictLight, m \in PredictMoisture,
          b \in BehavioursOf(model) :
          LET r == predict_health(model, h, l, m, b)
          IN  /\ op' = "predict"
              /\ ret' = [kind |-> "predict", args |-> <<h, l, m>>,
                         model |-> model, raised |-> r.raised,
                         failed |-> r.failed, value |-> r.value]
    /\ UNCHANGED <<file, model, memo, timestamps, cursor>>

\* predictor.calculate_health_score(humidity, light, moisture),
\* app.py line 200.
ScoreCall ==
    /\ op = "none"
    /\ model # "absent"
    /\ \E h \in ScoreHumidity, l \in ScoreLight, m \in ScoreMoisture :
          /\ op' = "score"
          /\ ret' = [kind |-> "score", args |-> <<h, l, m>>,
                     score |-> calculate_health_score(h, l, m)]
    /\ UNCHANGED <<file, model, memo, timestamps, cursor>>

\* An observer keeps one score result, and the model it was computed
\* under, to compare later results with.
Remember ==
    /\ op = "score"
    /\ memo # [args |-> ret.args, score |-> ret.score, model |-> model]
    /\ memo' = [args |-> ret.args, score |-> ret.score, model |-> model]
    /\ UNCHANGED <<file, model, op, ret, timestamps, cursor>>

\* predictor.get_recommendations(prediction, current_data), app.py line 147.
RecommendCall ==
    /\ op = "none"
    /\ model # "absent"
    /\ \E p \in RecLabels, m \in RecMoisture, l \in RecLight :
          LET sensor_data == [moisture |-> m, light |-> l]
          IN  /\ op' = "recommend"
              /\ ret' = [kind |-> "recommend", label |-> p,
                         sensor_data |-> sensor_data,
                         list |-> get_recommendations(p, sensor_data)]
    /\ UNCHANGED <<file, model, memo, timestamps, cursor>>

-----------------------------------------------------------------------------
(* SensorSimulator.get_current_readings                                    *)

\* sin(hour * pi / 12) in thousandths, sensor_simulator.py line 21 and
\* data_generator.py line 23.
time_factor(hour) ==
    <<0, 259, 500, 707, 866, 966, 1000, 966, 866, 707, 500, 259,
      0, -259, -500, -707, -866, -966, -1000, -966, -866, -707, -500,
      -259>>[hour + 1]

\* self.base_values, sensor_simulator.py lines 9-15, in thousandths.
base_values == [humidity |-> 65000, light |-> 500000, moisture |-> 600000,
                co2 |-> 400000, temperature |-> 22000]

\* st.session_state.locations, app.py lines 35-38, and a name that is not
\* in location_factors.
Locations == {"Building A - Lobby", "Building B - Facade",
              "Highway Wall - Section 1", "University Campus - Library",
              "Corporate HQ - Conference Room", "Unlisted Site"}

\* location_factors.get(location, default), lines 24-32: humidity and
\* moisture in hundredths, light in tenths.
location_factors(location) ==
    CASE location = "Building A - Lobby" ->
            [humidity |-> 0, light |-> 8, moisture |-> 0]
      [] location = "Building B - Facade" ->
            [humidity |-> 10, light |-> 12, moisture |-> -10]
      [] location = "Highway Wall - Section 1" ->
            [humidity |-> -10, light |-> 15, moisture |-> -20]
      [] location = "University Campus - Library" ->
            [humidity |-> 5, light |-> 6, moisture |-> 10]
      [] location = "Corporate HQ - Conference Room" ->
            [humidity |-> -5, light |-> 7, moisture |-> 5]
      [] OTHER -> [humidity |-> 0, light |-> 10, moisture |-> 0]

\* The largest magnitude a np.random.normal draw takes, in thousandths:
\* enough to push every channel past both of its bounds.
NoiseBig == 2000000

\* Draws of np.random.normal(0, sd).
Normal == {-NoiseBig, 0, NoiseBig}

\* Draws of np.random.uniform(lo, hi).
Uniform(lo, hi) == {lo, hi}

\* get_current_readings, lines 18-54.  n holds the five normal draws in
\* thousandths, u the uniform(15, 25) draw.
get_current_readings(location, hour, n, u) ==
    LET tf == time_factor(hour)
        factor == location_factors(location)
        humidity == Clamp(20000, 95000,
                      base_values.humidity + n[1] + tf * 10
                      + factor.humidity * 200)
        light == Clamp(50000, 1500000,
                      base_values.light + n[2] + tf * 30 * factor.light)
        moisture == Clamp(200000, 900000,
                      base_values.moisture + n[3] + factor.moisture * 1000)
        co2 == Clamp(300000, 600000, base_values.co2 + n[4] - tf * 50)
        temperature == Clamp(15000, 35000,
                      base_values.temperature + n[5] + tf * 5)
        moss_efficiency ==
            Min(1000, ((humidity \div 100) * (moisture \div 100)) \div 7000)
    IN  [kind |-> "reading", location |-> location, hour |-> hour,
         humidity |-> humidity, light |-> light, moisture |-> moisture,
         co2 |-> co2, temperature |-> temperature,
         co2_absorption |-> moss_efficiency * u]

\* sensor_simulator.get_current_readings(selected_location), app.py
\* lines 62 and 85.
Sample ==
    /\ op = "none"
    /\ \E location \in Locations, hour \in 0 .. 23,
          n \in [1 .. 5 -> Normal], u \in Uniform(15, 25) :
          /\ op' = "reading"
          /\ ret' = get_current_readings(location, hour, n, u)
    /\ UNCHANGED <<file, model, memo, timestamps, cursor>>

-----------------------------------------------------------------------------
(* HistoricalDataGenerator.generate_historical_data                        *)

\* self.hours_back, data_generator.py line 9.
hours_back == 24

\* freq='15T', line 17: minutes between two timestamps.
freq == 15

\* A range that leaves out its end point.
date_range_exclusive(start, end, step) ==
    [k \in 1 .. ((end - start - 1) \div step + 1) |-> start + (k - 1) * step]

\* pd.date_range(start, end, freq), line 17: start, start + freq, ... up to
\* and including end when it falls on the grid.  Instants are minutes.
date_range(start, end, step) ==
    [k \in 1 .. ((end - start) \div step + 1) |-> start + (k - 1) * step]

\* timestamp.hour, line 22.
HourOf(t) == (t \div 60) % 24

\* Instants datetime.now() returns (line 13), minutes since a midnight:
\* on the hour, inside an hour, and the last minute of a day.
Nows == {1440, 2277, 4319}

\* The iteration with the events applied after the clamps.
historical_row_events_last(timestamp, n, u, w, s) ==
    LET hour == (timestamp \div 60) % 24
        tf == time_factor(hour)
        humidity0 == Clamp(20000, 95000, 65000 + n[1] + tf * 15)
        light0 == Clamp(50000, 1500000, 500000 + n[2] + tf * 400)
        moisture0 == Clamp(200000, 900000, 600000 + n[3] + u)
        co2 == Clamp(300000, 600000, 400000 + n[4] - tf * 80)
        temperature0 == Clamp(15000, 35000, 22000 + n[5] + tf * 6)
        watering == hour \in {6, 18}
        peak == hour \in {12, 13, 14}
    IN  [kind |-> "row", timestamp |-> timestamp, hour |-> hour,
         humidity |-> IF watering THEN humidity0 + w[2] ELSE humidity0,
         light |-> IF peak THEN (light0 * s[1]) \div 10 ELSE light0,
         moisture |-> IF watering THEN moisture0 + w[1] ELSE moisture0,
         co2 |-> co2,
         temperature |-> IF peak THEN temperature0 + s[2] ELSE temperature0]

\* One loop iteration up to the clamps, lines 22-46.  n: the five normal
\* draws, u: uniform(-20, 20), w: the two watering draws, s: the peak-sun
\* draws (the light factor in tenths, the temperature boost in thousandths).
historical_row(timestamp, n, u, w, s) ==
    LET hour == HourOf(timestamp)
        tf == time_factor(hour)
        humidity0 == 65000 + n[1] + tf * 15
        light0 == 500000 + n[2] + tf * 400
        moisture0 == 600000 + n[3] + u
        co2 == 400000 + n[4] - tf * 80
        temperature0 == 22000 + n[5] + tf * 6
        watering == hour \in {6, 18}
        peak == hour \in {12, 13, 14}
        moisture == IF watering THEN moisture0 + w[1] ELSE moisture0
        humidity == IF watering THEN humidity0 + w[2] ELSE humidity0
        light == IF peak THEN (light0 * s[1]) \div 10 ELSE light0
        temperature == IF peak THEN temperature0 + s[2] ELSE temperature0
    IN  [kind |-> "row", timestamp |-> timestamp, hour |-> hour,
         humidity |-> Clamp(20000, 95000, humidity),
         light |-> Clamp(50000, 1500000, light),
         moisture |-> Clamp(200000, 900000, moisture),
         co2 |-> Clamp(300000, 600000, co2),
         temperature |-> Clamp(15000, 35000, temperature)]

\* Lines 13-19: the window and its timestamps; data = [].
GenStart ==
    /\ op = "none"
    /\ \E end_time \in Nows :
          LET start_time == end_time - hours_back * 60
          IN  cursor' = [times |-> date_range(start_time, end_time, freq),
                         i |-> 1, end_time |-> end_time]
    /\ timestamps' = <<>>
    /\ op' = "generating"
    /\ ret' = NoRet
    /\ UNCHANGED <<file, model, memo>>

\* Lines 20-46: the next timestamp's values.  The event draws are taken
\* only in the hours that use them.
GenRow ==
    /\ op = "generating"
    /\ ret = NoRet
    /\ cursor.i <= Len(cursor.times)
    /\ LET timestamp == cursor.times[cursor.i]
           hour == HourOf(timestamp)
           W == IF hour \in {6, 18}
                THEN Uniform(50000, 100000) \X Uniform(10000, 20000)
                ELSE {<<0, 0>>}
           S == IF hour \in {12, 13, 14}
                THEN Uniform(12, 18) \X Uniform(2000, 5000)
                ELSE {<<10, 0>>}
       IN  \E n \in [1 .. 5 -> Normal], u \in Uniform(-20000, 20000),
              w \in W, s \in S :
              ret' = historical_row(timestamp, n, u, w, s)
    /\ UNCHANGED <<file, model, op, memo, timestamps, cursor>>

\* Lines 48-55: data.append(row); the loop moves on.
GenAppend ==
    /\ op = "generating"
    /\ ret.kind = "row"
    /\ timestamps' = Append(timestamps, ret.timestamp)
    /\ cursor' = [cursor EXCEPT !.i = @ + 1]
    /\ ret' = NoRet
    /\ UNCHANGED <<file, model, op, memo>>

\* Line 57: the loop is over, the DataFrame is returned.
GenReturn ==
    /\ op = "generating"
    /\ ret = NoRet
    /\ cursor.i > Len(cursor.times)
    /\ op' = "history"
    /\ ret' = [kind |-> "history", end_time |-> cursor.end_time]
    /\ UNCHANGED <<file, model, memo, timestamps, cursor>>

-----------------------------------------------------------------------------
(* The labelling of the synthetic training samples                         *)

\* Samples of np.random.uniform(20, 95), (100, 1500) and (200, 900),
\* lines 35-37, in whole units: the thresholds of the rule and their
\* neighbours.
SampleHumidity == {20, 30, 39, 40, 59, 60, 70, 80, 81, 95}
SampleLight    == {100, 299, 300, 500, 800, 801, 1000, 1001, 1200, 1500}
SampleMoisture == {200, 300, 399, 400, 499, 500, 600, 650, 750, 751, 900}

\* One iteration of the labelling loop, lines 40-48.
LabelSample ==
    /\ op = "none"
    /\ \E h \in SampleHumidity, l \in SampleLight, m \in SampleMoisture :
          /\ op' = "label"
          /\ ret' = [kind |-> "label", args |-> <<h, l, m>>,
                     class |-> TrainLabel(h, l, m)]
    /\ UNCHANGED <<file, model, memo, timestamps, cursor>>

\* The result goes out of scope (end of the script run).
Discard ==
    /\ op \notin {"none", "generating"}
    /\ op' = "none"
    /\ ret' = NoRet
    /\ timestamps' = <<>>
    /\ cursor' = NoCursor
    /\ UNCHANGED <<file, model, memo>>

-----------------------------------------------------------------------------
(* Specifications                                                          *)

NoMemo == [args |-> <<>>, score |-> 0, model |-> "absent"]

Init ==
    /\ file \in FileStates
    /\ model = "absent"
    /\ op = "none"
    /\ ret = NoRet
    /\ memo = NoMemo
    /\ timestamps = <<>>
    /\ cursor = NoCursor

\* The predictor: sessions start, the artifact changes, the predictor is
\* called.
Next ==
    \/ Construct
    \/ EnvChange
    \/ PredictCall
    \/ ScoreCall
    \/ RecommendCall
    \/ Discard

Spec == Init /\ [][Next]_vars

\* The scorer under observation.
NextScore ==
    \/ Construct
    \/ EnvChange
    \/ ScoreCall
    \/ Remember
    \/ Discard

SpecScore == Init /\ [][NextScore]_vars

\* The two generators; the predictor takes no part.
InitSim ==
    /\ file = "valid"
    /\ model = "absent"
    /\ op = "none"
    /\ ret = NoRet
    /\ memo = NoMemo
    /\ timestamps = <<>>
    /\ cursor = NoCursor

NextSim ==
    \/ Sample
    \/ GenStart
    \/ GenRow
    \/ GenAppend
    \/ GenReturn
    \/ Discard

\* The labelling loop of create_fallback_model.
NextLabel ==
    \/ LabelSample
    \/ Discard

SpecLabel == InitSim /\ [][NextLabel]_vars

SpecSim == InitSim /\ [][NextSim]_vars

-----------------------------------------------------------------------------
(* One script run of app.py (a refresh tick)                               *)

\* The hours datetime.now() falls in while the dashboard is watched.
TickHours == {6, 12, 18}

\* The locations of the selectbox, app.py lines 35-38 and 49-53.
TickLocations == Locations \ {"Unlisted Site"}

\* Engine calls made so far in the script run.
NoCalls == [sample |-> 0, classify |-> 0, generate |-> 0, recommend |-> 0,
            score |-> 0]

NoStatus == [water |-> "", climate |-> "", alert |-> ""]

\* Water active for every label but Healthy.
automation_unless_healthy(prediction) ==
    [water   |-> IF prediction # "Healthy" THEN "Active" ELSE "Standby",
     climate |-> IF prediction = "Needs Shade" THEN "Active" ELSE "Normal",
     alert   |-> IF prediction = "Needs Attention" THEN "Alert" ELSE "Normal"]

\* Automated Maintenance System, app.py lines 244, 253 and 262.
automation(prediction) ==
    [water   |-> IF prediction = "Needs Water" THEN "Active" ELSE "Standby",
     climate |-> IF prediction = "Needs Shade" THEN "Active" ELSE "Normal",
     alert   |-> IF prediction = "Needs Attention" THEN "Alert" ELSE "Normal"]

\* The sidebar, app.py lines 47-68, and the test of line 81.  A pressed
\* export button calls get_current_readings (line 62); that reading goes to
\* st.download_button and the main path never reads it.
TickSidebar ==
    /\ op = "none"
    /\ model # "absent"
    /\ \E auto_refresh \in BOOLEAN, export \in BOOLEAN :
          ret' = [kind |-> "tick",
                  pc |-> IF auto_refresh THEN "sample" ELSE "done",
                  auto_refresh |-> auto_refresh, export |-> export,
                  calls |-> [NoCalls EXCEPT
                               !.sample = IF export THEN 1 ELSE 0],
                  current_data |-> NoRet, prediction |-> "",
                  recommendations |-> <<>>, status |-> NoStatus]
    /\ op' = "tick"
    /\ UNCHANGED <<file, model, memo, timestamps, cursor>>

\* Line 85 skipped when the export button already sampled.
TickSample_reuses_export ==
    /\ op = "tick"
    /\ ret.pc = "sample"
    /\ \E location \in TickLocations, hour \in TickHours,
          n \in [1 .. 5 -> Normal], u \in Uniform(15, 25) :
          ret' = [ret EXCEPT
                    !.current_data = get_current_readings(location, hour, n, u),
                    !.calls.sample = IF ret.export THEN @ ELSE @ + 1,
                    !.pc = "predict"]
    /\ UNCHANGED <<file, model, op, memo, timestamps, cursor>>

\* app.py line 85: current_data = get_current_readings(selected_location).
TickSample ==
    /\ op = "tick"
    /\ ret.pc = "sample"
    /\ \E location \in TickLocations, hour \in TickHours,
          n \in [1 .. 5 -> Normal], u \in Uniform(15, 25) :
          ret' = [ret EXCEPT
                    !.current_data = get_current_readings(location, hour, n, u),
                    !.calls.sample = @ + 1,
                    !.pc = "predict"]
    /\ UNCHANGED <<file, model, op, memo, timestamps, cursor>>

\* app.py lines 88-90: predict_health on the live reading (whole units).
\* confidence and health_score are rendered by lines 116-140 and not read
\* again; the label is.
TickPredict ==
    /\ op = "tick"
    /\ ret.pc = "predict"
    /\ \E b \in BehavioursOf(model) :
          LET r == predict_health(model,
                                  ret.current_data.humidity \div Milli,
                                  ret.current_data.light \div Milli,
                                  ret.current_data.moisture \div Milli, b)
          IN  ret' = [ret EXCEPT !.prediction = r.value[1],
                                 !.calls.classify = @ + 1,
                                 !.pc = "recommend"]
    /\ UNCHANGED <<file, model, op, memo, timestamps, cursor>>

\* app.py line 147: get_recommendations(prediction, current_data).  After
\* it current_data is only displayed (line 275).
TickRecommend ==
    /\ op = "tick"
    /\ ret.pc = "recommend"
    /\ ret' = [ret EXCEPT
                 !.recommendations =
                     get_recommendations(ret.prediction, ret.current_data),
                 !.calls.recommend = @ + 1,
                 !.current_data = NoRet,
                 !.pc = "generate"]
    /\ UNCHANGED <<file, model, op, memo, timestamps, cursor>>

\* app.py line 155: historical_data = generate_historical_data(), held by
\* its timestamp column.
TickGenerate ==
    /\ op = "tick"
    /\ ret.pc = "generate"
    /\ \E end_time \in Nows :
          timestamps' = date_range(end_time - hours_back * 60, end_time, freq)
    /\ ret' = [ret EXCEPT !.calls.generate = @ + 1, !.pc = "scores"]
    /\ UNCHANGED <<file, model, op, memo, cursor>>

\* app.py lines 200-201: calculate_health_score once per historical row.
TickRowScores ==
    /\ op = "tick"
    /\ ret.pc = "scores"
    /\ ret' = [ret EXCEPT !.calls.score = @ + Len(timestamps), !.pc = "rows"]
    /\ cursor' = [times |-> timestamps, i |-> 1, end_time |-> 0]
    /\ UNCHANGED <<file, model, op, memo, timestamps>>

\* app.py lines 221-224: one iteration of the loop that classifies every
\* historical row; predictions_sample is held by its length, cursor.i - 1.
TickRowPredict ==
    /\ op = "tick"
    /\ ret.pc = "rows"
    /\ cursor.i <= Len(cursor.times)
    /\ ret' = [ret EXCEPT !.calls.classify = @ + 1]
    /\ cursor' = [cursor EXCEPT !.i = @ + 1]
    /\ UNCHANGED <<file, model, op, memo, timestamps>>

\* app.py lines 238-267, after the loop: the three automation statuses.
TickAutomation ==
    /\ op = "tick"
    /\ ret.pc = "rows"
    /\ cursor.i > Len(cursor.times)
    /\ ret' = [ret EXCEPT !.status = automation(ret.prediction),
                          !.pc = "done"]
    /\ UNCHANGED <<file, model, op, memo, timestamps, cursor>>

\* A session whose predictor exists already (app.py line 30): it loaded the
\* trained classifier, or an artifact that unpickled to None.
InitTick ==
    /\ file \in {"valid", "foreign"}
    /\ model = IF file = "valid" THEN "trained" ELSE "None"
    /\ op = "none"
    /\ ret = NoRet
    /\ memo = NoMemo
    /\ timestamps = <<>>
    /\ cursor = NoCursor

\* Script runs; Discard is the end of a run (st.rerun, line 293).
NextTick ==
    \/ TickSidebar
    \/ TickSample
    \/ TickPredict
    \/ TickRecommend
    \/ TickGenerate
    \/ TickRowScores
    \/ TickRowPredict
    \/ TickAutomation
    \/ Discard

SpecTick == InitTick /\ [][NextTick]_vars

-----------------------------------------------------------------------------
(* Properties                                                              *)

\* The elements of a sequence.
Range(seq) == {seq[k] : k \in DOMAIN seq}

\* sub occurs in str as a run of consecutive pieces.
Contains(str, sub) ==
    \E k \in 1 .. (Len(str) - Len(sub) + 1) :
        SubSeq(str, k, k + Len(sub) - 1) = sub

\* The spec's Health Label enumeration.
HealthLabels == {"Healthy", "Needs Water", "Needs Shade", "Needs Attention"}

\* The sentinel of a degraded classification.
Sentinel == <<"Unknown", 0, 0>>

\* C1: predict_health never raises: for every input triple and every state
\* of self.model it returns a triple, and whenever an internal step fails
\* the triple is exactly ("Unknown", 0.0, 0.0).
C1_PredictNeverRaises ==
    op = "predict" =>
        /\ ~ret.raised
        /\ Len(ret.value) = 3
        /\ ret.failed => ret.value = Sentinel

\* C1 witness: an arbitrary unpickled object fails on the extreme input
\* (-1000, 1e9, .) and the call returns the sentinel.
C1_Witness ==
    /\ op = "predict"
    /\ ret.model = "object"
    /\ ret.args[1] = -1000 /\ ret.args[2] = 1000000000
    /\ ret.failed
    /\ ~ret.raised
    /\ ret.value = Sentinel

\* C2: constructing MossHealthPredictor never surfaces an error, whatever
\* the artifact's state and whichever step of load_model fails, and a
\* missing file or a load failure leaves self.model a trained classifier.
C2_LoadContained ==
    op = "construct" =>
        /\ ~ret.raised
        /\ ret.startFile \in {"missing", "corrupt", "unreadable"}
              => ret.model = "trained"

\* The declared bounds of the five channels, in thousandths.
ChannelsInBounds(r) ==
    /\ r.humidity >= 20 * Milli /\ r.humidity <= 95 * Milli
    /\ r.light >= 50 * Milli /\ r.light <= 1500 * Milli
    /\ r.moisture >= 200 * Milli /\ r.moisture <= 900 * Milli
    /\ r.co2 >= 300 * Milli /\ r.co2 <= 600 * Milli
    /\ r.temperature >= 15 * Milli /\ r.temperature <= 35 * Milli

\* C3: every channel of a live Reading and of a historical row lies within
\* its declared bounds, and co2_absorption of a live Reading is >= 0.
C3_ReadingsInBounds ==
    /\ ret.kind = "reading" => ChannelsInBounds(ret) /\ ret.co2_absorption >= 0
    /\ ret.kind = "row" => ChannelsInBounds(ret)

\* C3 witness: a peak-sun row whose boosted light was cut back to 1500.
C3_Witness ==
    /\ ret.kind = "row"
    /\ ret.hour = 13
    /\ ret.light = 1500 * Milli
    /\ ret.temperature = 35 * Milli

\* C4: calculate_health_score is within [0, 10] for every triple, and the
\* same triple always gives the same score, whatever was computed before
\* and whatever the model is.
C4_ScoreInRangeAndDeterministic ==
    op = "score" =>
        /\ ret.score >= 0
        /\ ret.score <= 10 * ScoreDen
        /\ memo.args = ret.args => memo.score = ret.score

\* C4 witness: a triple far outside the Reading bounds is scored a second
\* time, under another model than the first time.
C4_Witness ==
    /\ op = "score"
    /\ ret.args = <<-1000, 1000000000, 1100>>
    /\ memo.args = ret.args
    /\ memo.model # model

\* The closed form of the spec, over ScoreDen:
\* 10 * (0.3 * clamp01(1 - |h - 70| / 50) + 0.3 * clamp01(1 - |l - 500| / 700)
\*       + 0.4 * clamp01(1 - |m - 650| / 450)).
Closeness(x, optimum, halfWidth) ==
    IF Abs(x - optimum) >= halfWidth THEN 0 ELSE halfWidth - Abs(x - optimum)

ScoreFormula(h, l, m) ==
    (3 * ScoreDen * Closeness(h, 70, 50)) \div 50
    + (3 * ScoreDen * Closeness(l, 500, 700)) \div 700
    + (4 * ScoreDen * Closeness(m, 650, 450)) \div 450

\* C5: calculate_health_score(70, 500, 650) is 10.0, no triple scores
\* higher, and every score equals the closed form.
C5_ScoreFormulaAndMaximum ==
    op = "score" =>
        /\ ret.score = ScoreFormula(ret.args[1], ret.args[2], ret.args[3])
        /\ ret.score <= 10 * ScoreDen
        /\ ret.args = <<70, 500, 650>> => ret.score = 10 * ScoreDen

\* C5 witness: the optimum is scored 10.
C5_Witness ==
    /\ op = "score"
    /\ ret.args = <<70, 500, 650>>
    /\ ret.score = 10 * ScoreDen

\* C6, as stated: the label of every result of predict_health is one of
\* the four Health Labels.
C6_LabelInEnumeration ==
    op = "predict" => ret.value[1] \in HealthLabels

\* C6, amended: the label is one of the four Health Labels when no internal
\* step fails and the sentinel "Unknown" when one fails; nothing else.
C6_LabelOrSentinel ==
    op = "predict" =>
        /\ ~ret.failed => ret.value[1] \in HealthLabels
        /\ ret.failed => ret.value[1] = "Unknown"

\* C6 witness: the trained classifier's fourth class comes back as
\* "Needs Attention".
C6_Witness ==
    /\ op = "predict"
    /\ ret.model = "trained"
    /\ ~ret.failed
    /\ ret.value[1] = "Needs Attention"

\* C7: the training-label rule gives exactly one label per triple, with
\* the priority Healthy, Needs Water, Needs Shade, Needs Attention, and
\* labels the three triples of the spec as stated.
C7_TrainLabelRule ==
    op = "label" =>
        LET h == ret.args[1]
            l == ret.args[2]
            m == ret.args[3]
            label == labels[ret.class + 1]
            healthy == h \in 60 .. 80 /\ l \in 300 .. 800 /\ m \in 500 .. 750
            water == ~healthy /\ m < 400
            shade == ~healthy /\ ~water /\ (l > 1000 \/ h < 40)
        IN  /\ ret.class \in 0 .. 3
            /\ label = "Healthy" <=> healthy
            /\ label = "Needs Water" <=> water
            /\ label = "Needs Shade" <=> shade
            /\ label = "Needs Attention" <=> ~healthy /\ ~water /\ ~shade
            /\ ret.args = <<70, 500, 650>> => label = "Healthy"
            /\ ret.args = <<70, 500, 300>> => label = "Needs Water"
            /\ ret.args = <<30, 1200, 600>> => label = "Needs Shade"
            /\ (m < 400 /\ l > 1000) => label = "Needs Water"

\* C7 witness: a dry sample under strong light is labelled Needs Water.
C7_Witness ==
    /\ op = "label"
    /\ ret.args = <<30, 1200, 300>>
    /\ labels[ret.class + 1] = "Needs Water"

\* C8: generate_historical_data returns exactly 97 rows, from now - 24h to
\* now, consecutive timestamps 15 minutes apart, whatever the draws.
C8_HistoryShape ==
    op = "history" =>
        /\ Len(timestamps) = 97
        /\ timestamps[1] = ret.end_time - 24 * 60
        /\ timestamps[Len(timestamps)] = ret.end_time
        /\ \A k \in 1 .. (Len(timestamps) - 1) :
              timestamps[k + 1] - timestamps[k] = 15

\* C8 witness: a series generated at an instant inside an hour.
C8_Witness ==
    /\ op = "history"
    /\ ret.end_time = 2277
    /\ Len(timestamps) = 97

\* C9, as stated: a construction writes the artifact only if the file was
\* missing when it started, at most once, and a construction that finds the
\* persisted model loads it and neither retrains nor writes.
C9_WritesOnlyWhenMissing ==
    op = "construct" =>
        /\ ret.saved > 0 => ret.startFile = "missing"
        /\ ret.saved <= 1
        /\ ret.startFile = "valid" =>
              ret.loaded /\ ret.trained = 0 /\ ret.writes = 0

\* C9, amended: a construction writes only if the file was missing or could
\* not be loaded when it started, completes at most one write (opening the
\* file a second time only after the first dump failed), and a construction
\* that finds a loadable artifact loads it and neither retrains nor writes.
C9_WritesOnlyWhenNotLoaded ==
    op = "construct" =>
        /\ ret.writes > 0 => ret.startFile \in {"missing", "corrupt", "unreadable"}
        /\ ret.saved <= 1
        /\ ret.writes <= 2
        /\ ret.writes = 2 => ret.trained = 2
        /\ ret.saved = 1 => file = "valid" /\ model = "trained"
        /\ ret.startFile \in {"valid", "foreign"} =>
              /\ ret.loaded /\ ret.trained = 0 /\ ret.writes = 0
              /\ file = ret.startFile

\* C9 witness: a construction that found a corrupt artifact retrained and
\* saved once.
C9_Witness ==
    /\ op = "construct"
    /\ ret.startFile = "corrupt"
    /\ ret.trained = 1
    /\ ret.saved = 1
    /\ file = "valid"

\* The integer nearest to x thousandths is n.
Nearest(x, n) == Abs(n * Milli - x) <= 500

\* C10: get_recommendations returns 3 to 4 strings for each label; for
\* "Needs Water" one string holds the current moisture value and for
\* "Needs Shade" one holds the current light value (moisture 350 gives a
\* string containing "350"); nothing but ret changes.
C10_Recommendations ==
    op = "recommend" =>
        LET list == ret.list
            HasValue(x) ==
                \E k \in DOMAIN list, n \in 0 .. 2000 :
                    Nearest(x, n) /\ Contains(list[k], Digits(n))
        IN  /\ Len(list) \in 3 .. 4
            /\ ret.label = "Needs Water" => HasValue(ret.sensor_data.moisture)
            /\ ret.label = "Needs Shade" => HasValue(ret.sensor_data.light)
            /\ (ret.label = "Needs Water" /\ ret.sensor_data.moisture = 350 * Milli)
                  => \E k \in DOMAIN list : Contains(list[k], <<"3", "5", "0">>)
            /\ ret.label \notin {"Needs Water", "Needs Shade", "Needs Attention"}
                  => Len(list) = 3

\* C10 witness: "Needs Water" at moisture 350 yields four strings, the last
\* of which holds "350".
C10_Witness ==
    /\ op = "recommend"
    /\ ret.label = "Needs Water"
    /\ ret.sensor_data.moisture = 350 * Milli
    /\ Len(ret.list) = 4
    /\ Contains(ret.list[4], <<"3", "5", "0">>)


\* C11: the time factor of both generators lies in [-1, 1] and peaks at
\* midday: no hour's time factor exceeds that of hours 11, 12 and 13.
C11_TimeFactorPeaksAtMidday ==
    ret.kind \in {"reading", "row"} =>
        /\ time_factor(ret.hour) >= -Milli
        /\ time_factor(ret.hour) <= Milli
        /\ time_factor(ret.hour)
              <= Max(time_factor(11), Max(time_factor(12), time_factor(13)))


\* 1 when the export button was pressed in this run, else 0.
ExportCalls == IF ret.export THEN 1 ELSE 0

\* C12, as stated: in every refresh tick with auto-refresh enabled, export
\* pressed or not, sample, classify, generate and recommend are each called
\* exactly once; with auto-refresh disabled the main path calls none.
C12_OnceEachPerTick ==
    (op = "tick" /\ ret.pc = "done") =>
        IF ret.auto_refresh
        THEN /\ ret.calls.sample = 1
             /\ ret.calls.classify = 1
             /\ ret.calls.generate = 1
             /\ ret.calls.recommend = 1
        ELSE /\ ret.calls.sample - ExportCalls = 0
             /\ ret.calls.classify = 0
             /\ ret.calls.generate = 0
             /\ ret.calls.recommend = 0

\* C12, amended: in every refresh tick with auto-refresh enabled generate
\* and recommend are each called exactly once, sample once by the main path
\* and once more when the export button was pressed, classify once for the
\* live reading and once more for every historical row (1 + 97); with
\* auto-refresh disabled the main path calls none, and the export button
\* still samples once.
C12_CallsPerTick ==
    (op = "tick" /\ ret.pc = "done") =>
        IF ret.auto_refresh
        THEN /\ ret.calls.sample = 1 + ExportCalls
             /\ ret.calls.classify = 1 + Len(timestamps)
             /\ ret.calls.classify = 98
             /\ ret.calls.generate = 1
             /\ ret.calls.recommend = 1
        ELSE /\ ret.calls.sample = ExportCalls
             /\ ret.calls.classify = 0
             /\ ret.calls.generate = 0
             /\ ret.calls.recommend = 0

\* C12 witness: a finished tick with auto-refresh and the export button.
C12_Witness ==
    /\ op = "tick"
    /\ ret.pc = "done"
    /\ ret.auto_refresh
    /\ ret.export
    /\ ret.calls.sample = 2
    /\ ret.calls.classify = 98

\* The automation subsystems that are not in their idle status.
ActiveSystems ==
    {x \in {"water", "climate", "alert"} :
        ret.status[x] # automation("Healthy")[x]}

\* C13: for a label outside {Needs Water, Needs Shade, Needs Attention},
\* the "Unknown" sentinel included, the tick shows the recommendations of
\* Healthy (three strings, the last "System operating optimally") and all
\* three automation subsystems idle (Standby, Normal, Normal); in every
\* tick at most one subsystem is active.
C13_DegradedLooksHealthy ==
    (op = "tick" /\ ret.pc = "done" /\ ret.auto_refresh) =>
        /\ Cardinality(ActiveSystems) <= 1
        /\ ret.prediction \notin {"Needs Water", "Needs Shade", "Needs Attention"}
              => /\ ret.recommendations
                       = << <<"Continue current maintenance schedule">>,
                            <<"Monitor sensor readings">>,
                            <<"System operating optimally">> >>
                 /\ ret.status.water = "Standby"
                 /\ ret.status.climate = "Normal"
                 /\ ret.status.alert = "Normal"

\* C13 witness: a finished tick whose classification degraded to "Unknown".
C13_Witness ==
    /\ op = "tick"
    /\ ret.pc = "done"
    /\ ret.auto_refresh
    /\ ret.prediction = "Unknown"
    /\ Len(ret.recommendations) = 3
    /\ ret.status.water = "Standby"

=============================================================================
